---- MODULE Spec2Model ----
(***************************************************************************)
(* Model of rspamd-mon's counters (src/src/counters.rs): the rate and      *)
(* gauge counters, the rolling-window RspamdStatElement and the            *)
(* RspamdStat aggregator fed by update_from_json, and of the polling task  *)
(* of src/src/bin/main.rs (and its older form in src/src/main.rs) that     *)
(* feeds it.                                                               *)
(*                                                                         *)
(* f64 values are modelled as exact fractions <<n, d>> in lowest terms     *)
(* with d > 0, and f64::NAN as <<0, 0>>.  The raw values and elapsed       *)
(* durations drawn below keep every quotient the code computes exactly     *)
(* representable in binary64 (integers divided by powers of 2), so the     *)
(* exact arithmetic and the f64 arithmetic agree on them.  Raw inputs are  *)
(* finite numbers: the program only ever feeds counts and means of JSON    *)
(* numbers.                                                                *)
(* Durations are held in microseconds.                                     *)
(***************************************************************************)
EXTENDS Integers, Sequences, FiniteSets, TLC

VARIABLES
    elt,        \* one RspamdStatElement: [values, cur_value, nelts, is_gauge]
    elt_log,    \* the update calls made on elt: [value, elapsed, ok, ret]
    stat,       \* one RspamdStat: its five series
    last,       \* the update_from_json calls made on stat so far: their number n,
                \* and of the latest one whether its snapshot had "actions", the
                \* "reject" member of these, whether its "scan_times" held a
                \* number, its elapsed and its result:
                \* [n, has_actions, reject, samples, elapsed, ok, err]
    log,        \* the inputs and results of the calls of a short run on stat:
                \* [json, elapsed, ok, err]
    task,       \* the polling task spawned by main: its options, its locals
                \* niter, error_counter and elapsed, where it stands (pc),
                \* whether it holds the stats mutex, and what it has done
    overflow_checks
                \* the build checks integer overflow (the dev and test
                \* profiles) or wraps (the release profile); it matters to
                \* the machine with wide counts only, the others draw no
                \* count that overflows and take the release build

vars == <<elt, elt_log, stat, last, log, task, overflow_checks>>

\* ---------------------------------------------------------------- bounds
MaxNelts == 2       \* capacities 0..MaxNelts of the single element
MaxUpdates == 4     \* update calls on the single element
MaxRaw == 1         \* raw values 0..MaxRaw fed to the single element
MaxWindow == 1      \* capacities 1..MaxWindow of the RspamdStat
MaxCalls == 3       \* update_from_json calls on the RspamdStat
MaxLogged == 2      \* update_from_json calls of a short run with its inputs logged
MaxCount == 1       \* messages counted in one snapshot's "actions"
MaxCycles == 12     \* requests the polling task sends

\* ------------------------------------------------------------ f64 values
NaN == <<0, 0>>

IsNaN(x) == x[2] = 0

Num(n) == <<n, 1>>

Abs(n) == IF n < 0 THEN -n ELSE n

RECURSIVE GCD(_, _)
GCD(a, b) == IF b = 0 THEN a ELSE GCD(b, a % b)

Norm(n, d) == LET g == GCD(Abs(n), d) IN <<n \div g, d \div g>>

FSub(a, b) ==
    IF IsNaN(a) \/ IsNaN(b) THEN NaN
    ELSE Norm(a[1] * b[2] - b[1] * a[2], a[2] * b[2])

FAdd(a, b) ==
    IF IsNaN(a) \/ IsNaN(b) THEN NaN
    ELSE Norm(a[1] * b[2] + b[1] * a[2], a[2] * b[2])

\* x / (n as f64) for an integer n > 0
FDiv(a, n) == IF IsNaN(a) THEN NaN ELSE Norm(a[1], a[2] * n)

\* (n as f64) * mult for an integer n and an integral mult
FScale(n, mult) == Num(n * mult)

\* Duration::as_millis() as usize: whole milliseconds of a duration in us
as_millis(elapsed) == elapsed \div 1000

\* --------------------------------------------------------------- counters
\* Counter::new for both variants: no previous value yet
CounterNew == NaN

GaugeCounterUpdateNoStore(cur_value, new_value, ms) ==
    [cur_value |-> cur_value, ok |-> TRUE, ret |-> cur_value]

GaugeCounterUpdateZeroCheck(cur_value, new_value, ms) ==
    [cur_value |-> new_value, ok |-> ms # 0, ret |-> IF ms = 0 THEN NaN ELSE cur_value]

GaugeCounterUpdatePassThrough(cur_value, new_value, ms) ==
    [cur_value |-> new_value, ok |-> TRUE, ret |-> new_value]

\* GaugeCounter::update: hands back the value stored by the previous call
GaugeCounterUpdate(cur_value, new_value, ms) ==
    [cur_value |-> new_value, ok |-> TRUE, ret |-> cur_value]

DiffCounterUpdateClamped(cur_value, new_value, ms) ==
    LET diff == IF IsNaN(cur_value) THEN NaN ELSE FSub(new_value, cur_value)
        rate == IF ms = 0 \/ IsNaN(diff) THEN NaN
                ELSE IF diff[1] < 0 THEN Num(0) ELSE FDiv(diff, ms)
    IN  [cur_value |-> new_value, ok |-> ms # 0, ret |-> rate]

DiffCounterUpdateNoDivide(cur_value, new_value, ms) ==
    LET diff == IF IsNaN(cur_value) THEN NaN ELSE FSub(new_value, cur_value)
    IN  [cur_value |-> new_value, ok |-> ms # 0, ret |-> IF ms = 0 THEN NaN ELSE diff]

DiffCounterUpdateCheckFirst(cur_value, new_value, ms) ==
    LET diff == IF IsNaN(cur_value) THEN NaN ELSE FSub(new_value, cur_value)
    IN  IF ms = 0
        THEN [cur_value |-> cur_value, ok |-> FALSE, ret |-> NaN]
        ELSE [cur_value |-> new_value, ok |-> TRUE, ret |-> FDiv(diff, ms)]

\* DiffCounter::update: the previous value advances before ms is looked at
DiffCounterUpdate(cur_value, new_value, ms) ==
    LET diff == IF IsNaN(cur_value) THEN NaN ELSE FSub(new_value, cur_value)
    IN  [cur_value |-> new_value,
         ok        |-> ms # 0,
         ret       |-> IF ms = 0 THEN NaN ELSE FDiv(diff, ms)]

\* dyn Counter dispatch on the variant chosen in RspamdStatElement::new
CounterUpdate(is_gauge, cur_value, new_value, ms) ==
    IF is_gauge THEN GaugeCounterUpdate(cur_value, new_value, ms)
    ELSE DiffCounterUpdate(cur_value, new_value, ms)

\* ------------------------------------------------------ RspamdStatElement
ElementNew(nelts, is_gauge) ==
    [values |-> <<>>, cur_value |-> CounterNew, nelts |-> nelts, is_gauge |-> is_gauge]

\* VecDeque::pop_front: nothing happens on an empty deque
PopFront(values) == IF values = <<>> THEN values ELSE Tail(values)

ElementUpdateAlwaysAppend(e, value, elapsed) ==
    LET ms == as_millis(elapsed)
        c  == CounterUpdate(e.is_gauge, e.cur_value, value, ms)
        expired == IF Len(e.values) >= e.nelts THEN PopFront(e.values) ELSE e.values
    IN  IF ~c.ok
        THEN [elt |-> [e EXCEPT !.cur_value = c.cur_value], ok |-> FALSE, ret |-> NaN]
        ELSE [elt |-> [e EXCEPT !.cur_value = c.cur_value,
                                !.values = Append(expired, c.ret)],
              ok |-> TRUE, ret |-> c.ret]

\* RspamdStatElement::update: a counter error returns before values is
\* touched; a NaN result is returned but not stored
ElementUpdate(e, value, elapsed) ==
    LET ms == as_millis(elapsed)
        c  == CounterUpdate(e.is_gauge, e.cur_value, value, ms)
        expired == IF Len(e.values) >= e.nelts THEN PopFront(e.values) ELSE e.values
    IN  IF ~c.ok
        THEN [elt |-> [e EXCEPT !.cur_value = c.cur_value], ok |-> FALSE, ret |-> NaN]
        ELSE IF ~IsNaN(c.ret)
        THEN [elt |-> [e EXCEPT !.cur_value = c.cur_value,
                                !.values = Append(expired, c.ret)],
              ok |-> TRUE, ret |-> c.ret]
        ELSE [elt |-> [e EXCEPT !.cur_value = c.cur_value], ok |-> TRUE, ret |-> c.ret]

\* ------------------------------------------------------------ JSON values
\* A member of "actions": absent, an unsigned integer, or any other JSON value
JAbsent == [k |-> "absent", top |-> 0, n |-> 0]

JOther == [k |-> "other", top |-> 0, n |-> 0]

JU64(n) == [k |-> "u64", top |-> 0, n |-> n]

\* the JSON number 18446744073709551615, u64::MAX
JU64Max == [k |-> "u64", top |-> 1, n |-> -1]

\* An entry of "scan_times": a JSON number, or any other JSON value
JF64(x) == [k |-> "f64", x |-> x]

JNotNum == [k |-> "other", x |-> NaN]

FieldNames == {"reject", "no action", "add header", "rewrite subject"}

\* u64 values and their sums are held exactly as <<top, n>> for top * 2^64 + n,
\* with n small against 2^64: a count c is <<0, c>>, u64::MAX is <<1, -1>>
U64(n) == <<0, n>>

\* the pair stands for a value of 0 .. 2^64 - 1
InU64(v) == (v[1] = 0 /\ v[2] >= 0) \/ (v[1] = 1 /\ v[2] < 0)

\* the sum of two u64 values as a number
U64Sum(a, b) == <<a[1] + b[1], a[2] + b[2]>>

\* a sum of two u64 values reduced modulo 2^64
U64Wrap(v) == IF InU64(v) THEN v ELSE <<v[1] - 1, v[2]>>

\* a u64 total as the integer that `as f64` converts exactly; every total
\* drawn below is under 2^53 once the fold is through
U64Low(v) == CASE v[1] = 0 -> v[2]

ExtractedOrOne(actions, name) ==
    IF actions.fields[name].k = "u64"
    THEN <<actions.fields[name].top, actions.fields[name].n>>
    ELSE IF actions.fields[name].k = "absent" THEN U64(0) ELSE U64(1)

\* actions_json.get(field).map(|v| v.as_u64().unwrap_or(0)).unwrap_or(0)
ExtractedOrZero(actions, name) ==
    IF actions.fields[name].k = "u64"
    THEN <<actions.fields[name].top, actions.fields[name].n>>
    ELSE U64(0)

\* the panic message of a u64 addition that overflows with overflow checks on
Overflow == "attempt to add with overflow"

\* the fold over the source fields, from 0_u64.  acc + extracted beyond
\* 2^64 - 1 panics in a build with overflow checks (the dev and test
\* profiles) and wraps modulo 2^64 in one without (the release profile)
RECURSIVE FoldFields(_, _, _)
FoldFields(actions, field, acc) ==
    IF field = <<>> THEN [panic |-> FALSE, total |-> acc]
    ELSE LET sum == U64Sum(acc, ExtractedOrZero(actions, Head(field)))
         IN  IF InU64(sum) THEN FoldFields(actions, Tail(field), sum)
             ELSE IF overflow_checks THEN [panic |-> TRUE, total |-> acc]
             ELSE FoldFields(actions, Tail(field), U64Wrap(sum))

\* json_num.as_f64().unwrap_or(f64::NAN)
EntryAsF64(entry) == IF entry.k = "f64" THEN entry.x ELSE NaN

\* .filter(|num| !num.is_nan()).collect()
RECURSIVE FilterNumbers(_)
FilterNumbers(entries) ==
    IF entries = <<>> THEN <<>>
    ELSE LET x == EntryAsF64(Head(entries))
         IN  IF IsNaN(x) THEN FilterNumbers(Tail(entries))
             ELSE <<x>> \o FilterNumbers(Tail(entries))

\* sum_with_accumulator::<Sum2<_>>(): the sum of the samples
RECURSIVE SumF64(_)
SumF64(xs) == IF xs = <<>> THEN Num(0) ELSE FAdd(Head(xs), SumF64(Tail(xs)))

\* ------------------------------------------------------------- RspamdStat
\* the scale factor 1000.0_f64 passed for every rate series
Mult == 1000

StatNew(nelts) ==
    [spam_stats |-> ElementNew(nelts, FALSE),
     ham_stats  |-> ElementNew(nelts, FALSE),
     junk_stats |-> ElementNew(nelts, FALSE),
     total      |-> ElementNew(nelts, FALSE),
     avg_time   |-> ElementNew(nelts, TRUE)]

update_specific_from_json_first_field(e, actions, field, elapsed, mult) ==
    LET folded == FoldFields(actions, <<Head(field)>>, U64(0))
        total  == FScale(U64Low(folded.total), mult)
        r      == ElementUpdate(e, total, elapsed)
    IN  [elt |-> r.elt, ok |-> r.ok, total |-> total, err |-> "division by zero"]

\* update_specific_from_json: the scaled total goes through elt.update; a
\* panic of the fold leaves the element as it was
update_specific_from_json(e, actions, field, elapsed, mult) ==
    LET folded == FoldFields(actions, field, U64(0))
    IN  IF folded.panic
        THEN [elt |-> e, ok |-> FALSE, total |-> NaN, err |-> Overflow]
        ELSE LET total == FScale(U64Low(folded.total), mult)
                 r     == ElementUpdate(e, total, elapsed)
             IN  [elt |-> r.elt, ok |-> r.ok, total |-> total,
                  err |-> "division by zero"]

\* what update_from_json hands back: the RspamdStat as the call left it, and
\* Ok(()) or the error; a panic is held as a failure with err = Overflow
Failed(s, err) == [stat |-> s, ok |-> FALSE, err |-> err]

Succeeded(s) == [stat |-> s, ok |-> TRUE, err |-> ""]

AvgTimeStepEmptyMean(s, json, elapsed) ==
    IF json.scan_times.k # "array" THEN Succeeded(s)
    ELSE LET avg_times == FilterNumbers(json.scan_times.a)
             r == ElementUpdate(s.avg_time,
                      IF avg_times = <<>> THEN Num(0)
                      ELSE FDiv(SumF64(avg_times), Len(avg_times)), elapsed)
         IN  IF r.ok THEN Succeeded([s EXCEPT !.avg_time = r.elt])
             ELSE Failed([s EXCEPT !.avg_time = r.elt], "division by zero")

\* update_from_json, the scan_times block: the mean of the numeric samples
\* goes through the avg_time series; no array or no numeric sample, no update
AvgTimeStep(s, json, elapsed) ==
    IF json.scan_times.k # "array" THEN Succeeded(s)
    ELSE LET avg_times == FilterNumbers(json.scan_times.a)
         IN  IF avg_times = <<>> THEN Succeeded(s)
             ELSE LET r == ElementUpdate(s.avg_time,
                                         FDiv(SumF64(avg_times), Len(avg_times)), elapsed)
                  IN  IF r.ok THEN Succeeded([s EXCEPT !.avg_time = r.elt])
                      ELSE Failed([s EXCEPT !.avg_time = r.elt], "division by zero")

\* update_from_json, the total series: fed the sum of the three raw totals
TotalStep(s, json, elapsed, spam_cnt, ham_cnt, junk_cnt) ==
    LET r == ElementUpdate(s.total, FAdd(FAdd(spam_cnt, ham_cnt), junk_cnt), elapsed)
    IN  IF r.ok THEN AvgTimeStep([s EXCEPT !.total = r.elt], json, elapsed)
        ELSE Failed([s EXCEPT !.total = r.elt], "division by zero")

\* update_from_json, the junk series
JunkStep(s, json, elapsed, spam_cnt, ham_cnt) ==
    LET r == update_specific_from_json(s.junk_stats, json.actions,
                                       <<"add header", "rewrite subject">>, elapsed, Mult)
    IN  IF r.ok THEN TotalStep([s EXCEPT !.junk_stats = r.elt], json, elapsed,
                               spam_cnt, ham_cnt, r.total)
        ELSE Failed([s EXCEPT !.junk_stats = r.elt], r.err)

\* update_from_json, the ham series
HamStep(s, json, elapsed, spam_cnt) ==
    LET r == update_specific_from_json(s.ham_stats, json.actions, <<"no action">>,
                                       elapsed, Mult)
    IN  IF r.ok THEN JunkStep([s EXCEPT !.ham_stats = r.elt], json, elapsed,
                              spam_cnt, r.total)
        ELSE Failed([s EXCEPT !.ham_stats = r.elt], r.err)

SpamStepKeepGoing(s, json, elapsed) ==
    LET r == update_specific_from_json(s.spam_stats, json.actions, <<"reject">>,
                                       elapsed, Mult)
    IN  HamStep([s EXCEPT !.spam_stats = r.elt], json, elapsed, r.total)

\* update_from_json, the spam series: as at every later `?`, an error returns
\* at once and keeps what the sub-update already changed
SpamStep(s, json, elapsed) ==
    LET r == update_specific_from_json(s.spam_stats, json.actions, <<"reject">>,
                                       elapsed, Mult)
    IN  IF r.ok THEN HamStep([s EXCEPT !.spam_stats = r.elt], json, elapsed, r.total)
        ELSE Failed([s EXCEPT !.spam_stats = r.elt], r.err)

update_from_json_no_lookup(s, json, elapsed) == SpamStep(s, json, elapsed)

\* RspamdStat::update_from_json: a snapshot without "actions" is refused
\* before any series is touched
update_from_json(s, json, elapsed) ==
    IF ~json.actions.present THEN Failed(s, "missing actions")
    ELSE SpamStep(s, json, elapsed)

\* ------------------------------------------------------- the polling task
MAX_NET_ERRORS == 5

\* the task as tokio::spawn starts it: niter = 0, error_counter = 0, elapsed =
\* the configured timeout, the first turn of the loop about to build its HTTP
\* client.  mode is
\* "plot" or "prometheus" (src/src/bin/main.rs), or "chart" for the older
\* src/src/main.rs, which charts inside the update's critical section.
\* body is the response being decoded; sleeping the duration of the latest
\* sleep; exit why the task returned; cycles the turns of the loop begun; streak
\* the failures in a row that the latest successful cycle put an end to; plots
\* the number of times the plot (or chart) was displayed.
TaskNew(mode, timeout) ==
    [pc |-> "build", mode |-> mode, timeout |-> timeout,
     niter |-> 0, error_counter |-> 0, elapsed |-> timeout,
     held |-> FALSE, body |-> [well_formed |-> FALSE, json |-> <<>>],
     sleeping |-> 0, exit |-> "", cycles |-> 1, streak |-> 0, plots |-> 0]

\* no polling task: the value of task in the runs that call the counters directly
NoTask == [TaskNew("plot", 0) EXCEPT !.pc = "none", !.cycles = 0]

\* stats.lock().await: nobody else holds the mutex, the guard is granted
LockStats(t) == [t EXCEPT !.held = TRUE]

KeepGuard(t) == t

\* the MutexGuard stats_unlocked goes out of scope
DropGuard(t) == [t EXCEPT !.held = FALSE]

\* return Err(..) and the `?` operators: the spawned task ends with an error
Exit(t, cause) == [t EXCEPT !.pc = "done", !.exit = cause]

SleepElapsed(t) == [t EXCEPT !.pc = "sleep", !.sleeping = t.elapsed]

\* tokio::time::sleep(timeout).await
Sleep(t) == [t EXCEPT !.pc = "sleep", !.sleeping = t.timeout]

TooManyErrorsAtLimit(error_counter) == error_counter >= MAX_NET_ERRORS

\* error_counter > MAX_NET_ERRORS
TooManyErrors(error_counter) == error_counter > MAX_NET_ERRORS

\* the `if let Err(e) = res` branch: count the failure and double elapsed; give
\* up past MAX_NET_ERRORS, else sleep
OnError(t) ==
    LET u == [t EXCEPT !.error_counter = t.error_counter + 1,
                       !.elapsed = t.elapsed + t.elapsed]
    IN  IF TooManyErrors(u.error_counter) THEN Exit(u, "body") ELSE Sleep(u)

OnSuccessKeepElapsed(t) == [t EXCEPT !.error_counter = 0, !.streak = t.error_counter]

\* the else branch up to the mode test: the failure count and elapsed start over
OnSuccess(t) ==
    [t EXCEPT !.error_counter = 0, !.elapsed = t.timeout, !.streak = t.error_counter]

ShowAndCountAlways(t) == [t EXCEPT !.niter = t.niter + 1, !.plots = t.plots + 1]

\* niter > 0 shows the plot (or chart), the first success only logs; niter += 1
ShowAndCount(t) ==
    [t EXCEPT !.niter = t.niter + 1,
              !.plots = IF t.niter > 0 THEN t.plots + 1 ELSE t.plots]

\* update_from_json(..).map_err(..)? inside the spawned block: the error leaves
\* the task at once, res is never bound
UpdateFailed(t) == Exit(DropGuard(t), "update")

\* ----------------------------------------------------------------- inputs
\* the value of last before any call
NoCall ==
    [n |-> 0, has_actions |-> FALSE, reject |-> JAbsent, samples |-> FALSE,
     elapsed |-> 0, ok |-> TRUE, err |-> ""]

\* the snapshot's "scan_times" is an array holding at least one JSON number
HasSamples(json) ==
    /\ json.scan_times.k = "array"
    /\ \E i \in 1..Len(json.scan_times.a) : json.scan_times.a[i].k = "f64"

RawValues == {Num(i) : i \in 0..MaxRaw}

\* elapsed durations in microseconds: 0 ms twice (zero, and below 1 ms), 1 ms, 2 ms
Durations == {0, 500, 1000, 2000}

\* --------------------------------------------- the single-element machine
InitElement ==
    /\ \E n \in 0..MaxNelts, g \in BOOLEAN : elt = ElementNew(n, g)
    /\ elt_log = <<>>
    /\ stat = StatNew(0)
    /\ last = NoCall
    /\ log = <<>>
    /\ task = NoTask
    /\ overflow_checks = FALSE

\* one call of RspamdStatElement::update
Update(value, elapsed) ==
    LET r == ElementUpdate(elt, value, elapsed)
    IN  /\ Len(elt_log) < MaxUpdates
        /\ elt' = r.elt
        /\ elt_log' = Append(elt_log,
               [value |-> value, elapsed |-> elapsed, ok |-> r.ok, ret |-> r.ret])
        /\ UNCHANGED <<stat, last, log, task, overflow_checks>>

NextElement == \E value \in RawValues, elapsed \in Durations : Update(value, elapsed)

SpecElement == InitElement /\ [][NextElement]_vars

\* ------------------------------------------------- the RspamdStat machine
\* "actions" objects, every field an unsigned count: up to MaxCount messages
\* of one action, or MaxCount messages of each
CountVectors ==
    {c \in [FieldNames -> 0..MaxCount] : Cardinality({f \in FieldNames : c[f] # 0}) <= 1}
    \cup {[f \in FieldNames |-> MaxCount]}

ActionsOf(c) == [present |-> TRUE, fields |-> [f \in FieldNames |-> JU64(c[f])]]

NoActions == [present |-> FALSE, fields |-> [f \in FieldNames |-> JAbsent]]

ScanAbsent == [k |-> "absent", a |-> <<>>]

ScanArray(a) == [k |-> "array", a |-> a]

ScanTimes ==
    {ScanAbsent, [k |-> "other", a |-> <<>>], ScanArray(<<>>), ScanArray(<<JNotNum>>),
     ScanArray(<<JF64(Num(1))>>), ScanArray(<<JF64(Num(1)), JNotNum, JF64(Num(2))>>)}

\* an "actions" object with "reject" not an unsigned integer and "add header"
\* missing
PartialActions ==
    [present |-> TRUE,
     fields  |-> [f \in FieldNames |->
                    IF f = "reject" THEN JOther
                    ELSE IF f = "add header" THEN JAbsent
                    ELSE JU64(MaxCount)]]

Snapshots ==
    {[actions |-> ActionsOf(c), scan_times |-> ScanAbsent] : c \in CountVectors}
    \cup {[actions |-> PartialActions, scan_times |-> ScanAbsent]}
    \cup {[actions |-> ActionsOf([f \in FieldNames |-> 0]), scan_times |-> st] : st \in ScanTimes}
    \cup {[actions |-> NoActions, scan_times |-> ScanArray(<<JF64(Num(1))>>)]}

\* elapsed durations handed to update_from_json, in microseconds: 0 ms, 1 ms, 2 ms
Elapsed == {500, 1000, 2000}

Init ==
    /\ \E n \in 1..MaxWindow : stat = StatNew(n)
    /\ last = NoCall
    /\ log = <<>>
    /\ elt = ElementNew(0, FALSE)
    /\ elt_log = <<>>
    /\ task = NoTask
    /\ overflow_checks = FALSE

\* one call of RspamdStat::update_from_json
UpdateFromJson(json, elapsed) ==
    LET r == update_from_json(stat, json, elapsed)
    IN  /\ last.n < MaxCalls
        /\ stat' = r.stat
        /\ last' = [n |-> last.n + 1, has_actions |-> json.actions.present,
                    reject |-> json.actions.fields["reject"],
                    samples |-> HasSamples(json),
                    elapsed |-> elapsed, ok |-> r.ok, err |-> r.err]
        /\ UNCHANGED <<log, elt, elt_log, task, overflow_checks>>

Next == \E json \in Snapshots, elapsed \in Elapsed : UpdateFromJson(json, elapsed)

Spec == Init /\ [][Next]_vars

\* the same call in a short run that keeps every call's input and result
LoggedUpdateFromJson(json, elapsed) ==
    LET r == update_from_json(stat, json, elapsed)
    IN  /\ Len(log) < MaxLogged
        /\ stat' = r.stat
        /\ last' = [n |-> last.n + 1, has_actions |-> json.actions.present,
                    reject |-> json.actions.fields["reject"],
                    samples |-> HasSamples(json),
                    elapsed |-> elapsed, ok |-> r.ok, err |-> r.err]
        /\ log' = Append(log, [json |-> json, elapsed |-> elapsed, ok |-> r.ok, err |-> r.err])
        /\ UNCHANGED <<elt, elt_log, task, overflow_checks>>

NextLogged == \E json \in Snapshots, elapsed \in Elapsed : LoggedUpdateFromJson(json, elapsed)

SpecLogged == Init /\ [][NextLogged]_vars

\* ------------------------------------------ the machine with wide counts
\* snapshots whose junk counts reach the u64 range: "add header" is u64::MAX
\* and "rewrite subject" 1 (the sum is 2^64), or the other way round; and two
\* snapshots of small counts
WideSnapshots ==
    {[actions |-> [present |-> TRUE,
                   fields |-> [f \in FieldNames |->
                                 IF f = "add header" THEN JU64Max
                                 ELSE IF f = "rewrite subject" THEN JU64(1)
                                 ELSE JU64(0)]],
      scan_times |-> ScanAbsent],
     [actions |-> [present |-> TRUE,
                   fields |-> [f \in FieldNames |->
                                 IF f = "rewrite subject" THEN JU64Max
                                 ELSE IF f = "add header" THEN JU64(1)
                                 ELSE JU64(MaxCount)]],
      scan_times |-> ScanArray(<<JF64(Num(1))>>)],
     [actions |-> ActionsOf([f \in FieldNames |-> 0]), scan_times |-> ScanAbsent],
     [actions |-> ActionsOf([f \in FieldNames |-> MaxCount]),
      scan_times |-> ScanArray(<<JF64(Num(1))>>)]}

\* either build of the program
InitWide ==
    /\ overflow_checks \in BOOLEAN
    /\ \E n \in 1..MaxWindow : stat = StatNew(n)
    /\ last = NoCall
    /\ log = <<>>
    /\ elt = ElementNew(0, FALSE)
    /\ elt_log = <<>>
    /\ task = NoTask

NextWide == \E json \in WideSnapshots, elapsed \in Elapsed : UpdateFromJson(json, elapsed)

SpecWide == InitWide /\ [][NextWide]_vars

\* ---------------------------------------------------- the polling machine
\* --timeout in microseconds: half a millisecond (0 whole ms) and 1 ms
Timeouts == {500, 1000}

Modes == {"plot", "prometheus", "chart"}

\* --num-elements (--chart-width in src/src/main.rs)
NumElements == 1

\* the response bodies the endpoint sends: bytes that are no JSON, a
\* document without "actions", and two well-formed snapshots
Malformed == [well_formed |-> FALSE, json |-> <<>>]

Decoded(json) == [well_formed |-> TRUE, json |-> json]

Bodies ==
    {Malformed,
     Decoded([actions |-> NoActions, scan_times |-> ScanAbsent]),
     Decoded([actions |-> ActionsOf([f \in FieldNames |-> 0]),
              scan_times |-> ScanArray(<<JF64(Num(1))>>)]),
     Decoded([actions |-> ActionsOf([f \in FieldNames |->
                                       IF f = "reject" THEN MaxCount ELSE 0]),
              scan_times |-> ScanAbsent])}

InitLoop ==
    /\ \E mode \in Modes, timeout \in Timeouts : task = TaskNew(mode, timeout)
    /\ overflow_checks = FALSE
    /\ stat = StatNew(NumElements)
    /\ last = NoCall
    /\ log = <<>>
    /\ elt = ElementNew(0, FALSE)
    /\ elt_log = <<>>

\* the top of a turn: reqwest::Client::builder()..build() gives Err (no TLS
\* backend, no resolver configuration) and its `?` ends the task
BuildFails ==
    /\ task.pc = "build"
    /\ task' = Exit(task, "build")
    /\ UNCHANGED <<stat, last, log, elt, elt_log, overflow_checks>>

\* the client is built and the request sent: its response is awaited
BuildOk ==
    /\ task.pc = "build"
    /\ task' = [task EXCEPT !.pc = "request"]
    /\ UNCHANGED <<stat, last, log, elt, elt_log, overflow_checks>>

\* req.await gives Err: the task returns at once
SendFails ==
    /\ task.pc = "request"
    /\ task' = Exit(task, "send")
    /\ UNCHANGED <<stat, last, log, elt, elt_log, overflow_checks>>

\* req.await gives the response: its body is awaited next
SendOk ==
    /\ task.pc = "request"
    /\ task' = [task EXCEPT !.pc = "body"]
    /\ UNCHANGED <<stat, last, log, elt, elt_log, overflow_checks>>

\* resp.await gives Err: res is an error, handled by the error branch
BodyFails ==
    /\ task.pc = "body"
    /\ task' = OnError(task)
    /\ UNCHANGED <<stat, last, log, elt, elt_log, overflow_checks>>

\* resp.await gives the bytes of the body
BodyRead(body) ==
    /\ task.pc = "body"
    /\ task' = [task EXCEPT !.pc = "decode", !.body = body]
    /\ UNCHANGED <<stat, last, log, elt, elt_log, overflow_checks>>

\* serde_json::from_slice: malformed bytes end the task, a document is kept
\* and the stats mutex is taken
Decode ==
    /\ task.pc = "decode"
    /\ task' = IF task.body.well_formed THEN LockStats([task EXCEPT !.pc = "update"])
               ELSE Exit(task, "json")
    /\ UNCHANGED <<stat, last, log, elt, elt_log, overflow_checks>>

\* update_from_json under the guard, then the end of the Ok arm: the guard is
\* dropped; src/src/main.rs charts and counts niter before that
UpdateStats ==
    LET r == update_from_json(stat, task.body.json, task.elapsed)
    IN  /\ task.pc = "update"
        /\ stat' = r.stat
        /\ task' = IF r.err = Overflow THEN Exit(DropGuard(task), "panic")
                   ELSE IF ~r.ok THEN UpdateFailed(task)
                   ELSE LET t == [task EXCEPT !.pc = "settle"]
                        IN  DropGuard(IF task.mode = "chart" THEN ShowAndCount(t) ELSE t)
        /\ UNCHANGED <<last, log, elt, elt_log, overflow_checks>>

\* res is Ok: the else branch; in plot mode the mutex is taken again
Settle ==
    /\ task.pc = "settle"
    /\ task' = IF task.mode = "plot"
               THEN LockStats([OnSuccess(task) EXCEPT !.pc = "plot"])
               ELSE Sleep(OnSuccess(task))
    /\ UNCHANGED <<stat, last, log, elt, elt_log, overflow_checks>>

\* display_plot (from the second success on) and niter += 1 under the guard,
\* which the end of the block drops
Plot ==
    /\ task.pc = "plot"
    /\ task' = Sleep(DropGuard(ShowAndCount(task)))
    /\ UNCHANGED <<stat, last, log, elt, elt_log, overflow_checks>>

\* the sleep is over: the next turn of the loop begins
Wake ==
    /\ task.pc = "sleep"
    /\ task.cycles < MaxCycles
    /\ task' = [task EXCEPT !.pc = "build", !.cycles = task.cycles + 1]
    /\ UNCHANGED <<stat, last, log, elt, elt_log, overflow_checks>>

NextLoop ==
    \/ BuildFails
    \/ BuildOk
    \/ SendFails
    \/ SendOk
    \/ BodyFails
    \/ \E body \in Bodies : BodyRead(body)
    \/ Decode
    \/ UpdateStats
    \/ Settle
    \/ Plot
    \/ Wake

SpecLoop == InitLoop /\ [][NextLoop]_vars

\* ================================================================ claims
\* helpers of the statements below
LastOf(q) == q[Len(q)]

Min(a, b) == IF a < b THEN a ELSE b

\* the last n elements of q
LastN(q, n) == SubSeq(q, Len(q) - n + 1, Len(q))

\* the values update returned that were not the NaN sentinel, in call order
RECURSIVE Returned(_)
Returned(calls) ==
    IF calls = <<>> THEN <<>>
    ELSE LET c == Head(calls)
         IN  IF c.ok /\ ~IsNaN(c.ret) THEN <<c.ret>> \o Returned(Tail(calls))
             ELSE Returned(Tail(calls))

\* a step of the single-element machine: one more call in elt_log
EltStep == Len(elt_log') = Len(elt_log) + 1

\* C1: for a rate element, the first update after construction never appends
\* to values, whatever the raw value and the elapsed duration.
C1_FirstRateUpdateStoresNothing ==
    (~elt.is_gauge /\ Len(elt_log) = 1) => elt.values = <<>>

C1_Witness ==
    /\ ~elt.is_gauge
    /\ Len(elt_log) = 1
    /\ elt_log[1].ok
    /\ elt_log[1].value = Num(1)
    /\ elt.cur_value = Num(1)
    /\ elt.values = <<>>

\* C2 (as claimed): values.len() <= nelts in every reachable state of an
\* element, for every capacity passed to new, 0 included.
C2_LenWithinNelts == Len(elt.values) <= elt.nelts

\* C3 (as claimed): values is the last min(k, nelts) of the k non-sentinel
\* values update returned, oldest first.
C3_SlidingWindow ==
    LET returned == Returned(elt_log)
    IN  elt.values = LastN(returned, Min(Len(returned), elt.nelts))

\* C4: a fresh rate element fed n+1 <= capacity+1 raw values v0..vn with one
\* and the same non-zero elapsed_ms holds exactly n values, the i-th being
\* (v[i+1] - v[i]) / elapsed_ms.
C4_RateHistoryIsQuotients ==
    (/\ ~elt.is_gauge
     /\ elt_log # <<>>
     /\ Len(elt_log) - 1 <= elt.nelts
     /\ \A i \in 1..Len(elt_log) :
            /\ elt_log[i].elapsed = elt_log[1].elapsed
            /\ as_millis(elt_log[i].elapsed) # 0)
    => /\ Len(elt.values) = Len(elt_log) - 1
       /\ \A i \in 1..(Len(elt_log) - 1) :
            elt.values[i] = FDiv(FSub(elt_log[i + 1].value, elt_log[i].value),
                                 as_millis(elt_log[1].elapsed))

C4_Witness ==
    /\ ~elt.is_gauge
    /\ elt.nelts = 2
    /\ Len(elt_log) = 3
    /\ \A i \in 1..3 : elt_log[i].elapsed = 2000
    /\ elt.values = <<<<1, 2>>, <<-1, 2>>>>

\* C5: on a rate element in any state, an update whose elapsed has 0 whole
\* milliseconds returns the error, leaves values as it was and stores the raw
\* value as the previous value; the next update's difference is taken against
\* the value supplied in the failed call.
C5_ZeroElapsedRate ==
    [][(~elt.is_gauge /\ EltStep) =>
        LET new == LastOf(elt_log')
        IN  /\ as_millis(new.elapsed) = 0 =>
                /\ ~new.ok
                /\ elt'.values = elt.values
                /\ elt'.cur_value = new.value
            /\ (/\ elt_log # <<>>
                /\ ~LastOf(elt_log).ok
                /\ as_millis(new.elapsed) # 0) =>
                /\ new.ok
                /\ new.ret = FDiv(FSub(new.value, LastOf(elt_log).value),
                                  as_millis(new.elapsed))]_vars

C5_Witness ==
    /\ ~elt.is_gauge
    /\ Len(elt_log) = 4
    /\ elt_log[2].ok /\ ~IsNaN(elt_log[2].ret)
    /\ ~elt_log[3].ok
    /\ elt_log[3].elapsed = 500
    /\ elt_log[3].value # elt_log[2].value
    /\ elt_log[4].ok
    /\ elt_log[4].value = elt_log[2].value
    /\ elt.values = <<elt_log[2].ret, elt_log[4].ret>>
    /\ elt_log[4].ret # Num(0)

\* C6 (as claimed): a gauge update returns the raw value supplied in that same
\* call, never an error, whatever the elapsed.
C6_GaugeReturnsInput ==
    elt.is_gauge =>
        \A i \in 1..Len(elt_log) : elt_log[i].ok /\ elt_log[i].ret = elt_log[i].value

\* C6 (amended): a gauge update never returns an error and returns, whatever
\* the elapsed (zero included), the raw value supplied in the previous update
\* call, the NaN sentinel on the first call.
C6_GaugeReturnsPrevious ==
    elt.is_gauge =>
        \A i \in 1..Len(elt_log) :
            /\ elt_log[i].ok
            /\ elt_log[i].ret = IF i = 1 THEN NaN ELSE elt_log[i - 1].value

C6_Witness ==
    /\ elt.is_gauge
    /\ Len(elt_log) = 3
    /\ elt_log[2].elapsed = 0
    /\ elt_log[3].elapsed = 2000
    /\ elt_log[1].value # elt_log[2].value
    /\ elt_log[2].value # elt_log[3].value
    /\ elt_log[2].ret = elt_log[1].value
    /\ elt_log[3].ret = elt_log[2].value

\* C7: on a gauge element the first update returns the NaN sentinel and stores
\* nothing; every later update returns, and appends to values, the raw value
\* supplied in the call before it.
C7_GaugeLagsByOne ==
    [][(elt.is_gauge /\ EltStep) =>
        LET new == LastOf(elt_log')
        IN  IF elt_log = <<>>
            THEN IsNaN(new.ret) /\ elt'.values = <<>>
            ELSE /\ new.ret = LastOf(elt_log).value
                 /\ elt'.values # <<>>
                 /\ LastOf(elt'.values) = LastOf(elt_log).value
                 /\ Len(elt'.values) >= Len(elt.values)]_vars

C7_Witness ==
    /\ elt.is_gauge
    /\ elt.nelts = 2
    /\ Len(elt_log) = 3
    /\ elt_log[1].value # elt_log[2].value
    /\ elt.values = <<elt_log[1].value, elt_log[2].value>>
    /\ elt.cur_value = elt_log[3].value

\* a step of the RspamdStat machine: one more update_from_json call
StatStep == last'.n = last.n + 1

\* C8: update_from_json on a snapshot without "actions" returns an error and
\* leaves all five series as they were, histories and stored previous values.
C8_MissingActionsChangesNothing ==
    [][(StatStep /\ ~last'.has_actions) =>
        /\ ~last'.ok
        /\ last'.err = "missing actions"
        /\ stat' = stat]_vars

C8_Witness ==
    /\ last.n = 3
    /\ ~last.has_actions
    /\ ~last.ok
    /\ stat.total.values # <<>>
    /\ stat.avg_time.values # <<>>
    /\ ~IsNaN(stat.spam_stats.cur_value)

\* C9 (as claimed): whenever the total series has a latest history value, it
\* is the sum of the latest history values of the spam, ham and junk series.
C9_TotalIsSumOfRates ==
    stat.total.values # <<>> =>
        /\ stat.spam_stats.values # <<>>
        /\ stat.ham_stats.values # <<>>
        /\ stat.junk_stats.values # <<>>
        /\ LastOf(stat.total.values) =
               FAdd(FAdd(LastOf(stat.spam_stats.values), LastOf(stat.ham_stats.values)),
                    LastOf(stat.junk_stats.values))

\* the count a snapshot's "actions" gives for a field
CountOf(json, name) == json.actions.fields[name].n

\* all four source fields of a snapshot are unsigned counts
HasCounts(json) ==
    json.actions.present /\ \A f \in FieldNames : json.actions.fields[f].k = "u64"

\* 1000 * (c2 - c1) / E for counts c1, c2 and E whole milliseconds
RateOf(c1, c2, elapsed) == FDiv(Num(1000 * (c2 - c1)), as_millis(elapsed))

\* C10: after two consecutive successful update_from_json calls on a fresh
\* RspamdStat with the same elapsed E > 0, the spam history is the single
\* entry 1000 * (r2 - r1) / E for the "reject" counts r1, r2; likewise ham for
\* "no action" and junk for "add header" + "rewrite subject".
C10_TwoCallsRates ==
    (/\ Len(log) = 2
     /\ log[1].ok /\ log[2].ok
     /\ log[1].elapsed = log[2].elapsed
     /\ HasCounts(log[1].json) /\ HasCounts(log[2].json))
    => LET j1 == log[1].json
           j2 == log[2].json
           E  == log[2].elapsed
       IN  /\ stat.spam_stats.values =
                <<RateOf(CountOf(j1, "reject"), CountOf(j2, "reject"), E)>>
           /\ stat.ham_stats.values =
                <<RateOf(CountOf(j1, "no action"), CountOf(j2, "no action"), E)>>
           /\ stat.junk_stats.values =
                <<RateOf(CountOf(j1, "add header") + CountOf(j1, "rewrite subject"),
                         CountOf(j2, "add header") + CountOf(j2, "rewrite subject"), E)>>

C10_Witness ==
    /\ Len(log) = 2
    /\ log[1].ok /\ log[2].ok
    /\ log[1].elapsed = 2000 /\ log[2].elapsed = 2000
    /\ CountOf(log[1].json, "reject") = 0
    /\ CountOf(log[2].json, "reject") = 1
    /\ stat.spam_stats.values = <<Num(500)>>
    /\ stat.ham_stats.values = <<Num(0)>>

\* the raw value a snapshot's "reject" member gives the spam series
RejectRaw(v) == Num(1000 * (IF v.k = "u64" THEN v.n ELSE 0))

\* C11: update_from_json with an elapsed of zero whole milliseconds on a
\* snapshot that has "actions" returns the division-by-zero error of the spam
\* sub-update and stops there: the spam series' stored previous value becomes
\* the new raw value, and nothing else of the five series changes, no history
\* and no other stored previous value.
C11_ZeroElapsedTouchesSpamOnly ==
    [][(StatStep /\ last'.has_actions /\ as_millis(last'.elapsed) = 0) =>
        /\ ~last'.ok
        /\ last'.err = "division by zero"
        /\ stat' = [stat EXCEPT !.spam_stats.cur_value = RejectRaw(last'.reject)]]_vars

C11_Witness ==
    /\ last.n = 3
    /\ last.has_actions
    /\ as_millis(last.elapsed) = 0
    /\ ~last.ok
    /\ last.reject = JU64(1)
    /\ stat.spam_stats.cur_value = Num(1000)
    /\ stat.spam_stats.values = <<Num(0)>>
    /\ stat.total.cur_value = Num(0)
    /\ stat.total.values = <<Num(0)>>

\* a rate series took one more raw value over ms whole milliseconds: it holds
\* a new previous value, and its history gained the rate if a previous value existed
RateSeriesUpdated(old, new, ms) ==
    /\ ~IsNaN(new.cur_value)
    /\ IF IsNaN(old.cur_value) THEN new.values = old.values
       ELSE /\ new.values # <<>>
            /\ LastOf(new.values) = FDiv(FSub(new.cur_value, old.cur_value), ms)
            /\ Len(new.values) = Min(Len(old.values) + 1, new.nelts)

\* C12: when update_from_json succeeds on a snapshot whose "scan_times" is
\* absent, not an array, empty, or without a numeric entry, the avg_time series
\* keeps its history and its stored previous value, the call returns Ok and the
\* four rate series are updated.
C12_NoSamplesLeavesAvgTime ==
    [][(StatStep /\ last'.ok /\ ~last'.samples) =>
        /\ stat'.avg_time = stat.avg_time
        /\ stat'.spam_stats.cur_value = RejectRaw(last'.reject)
        /\ \A f \in {"spam_stats", "ham_stats", "junk_stats", "total"} :
               RateSeriesUpdated(stat[f], stat'[f], as_millis(last'.elapsed))]_vars

C12_Witness ==
    /\ last.n = 3
    /\ last.ok
    /\ ~last.samples
    /\ stat.avg_time.values = <<Num(1)>>
    /\ stat.avg_time.cur_value = <<3, 2>>
    /\ stat.total.values = <<Num(0)>>

\* the count a member of "actions" stands for: its value when it is an
\* unsigned integer, 0 when it is missing or anything else
CountOrZero(json, name) ==
    IF json.actions.fields[name].k = "u64" THEN json.actions.fields[name].n ELSE 0

\* C13: the raw value update_specific_from_json feeds a rate series is 1000
\* times the sum of the unsigned counts of its source fields present in
\* "actions"; a missing or non-unsigned field counts 0 and causes no error:
\* with a non-zero elapsed the call succeeds whatever the fields hold.
C13_RawValueIsScaledSum ==
    (log # <<>> /\ LastOf(log).json.actions.present) =>
        LET c == LastOf(log)
        IN  /\ stat.spam_stats.cur_value = Num(1000 * CountOrZero(c.json, "reject"))
            /\ c.ok <=> as_millis(c.elapsed) # 0
            /\ c.ok =>
                 /\ stat.ham_stats.cur_value = Num(1000 * CountOrZero(c.json, "no action"))
                 /\ stat.junk_stats.cur_value =
                        Num(1000 * (CountOrZero(c.json, "add header")
                                    + CountOrZero(c.json, "rewrite subject")))

C13_Witness ==
    /\ Len(log) = 2
    /\ log[2].ok
    /\ log[2].json.actions.fields["reject"] = JOther
    /\ log[2].json.actions.fields["add header"] = JAbsent
    /\ log[2].json.actions.fields["rewrite subject"] = JU64(MaxCount)
    /\ stat.spam_stats.cur_value = Num(0)
    /\ stat.junk_stats.cur_value = Num(1000 * MaxCount)
    /\ stat.junk_stats.values # <<>>

\* C18: for both counter variants, after every update call, whether it
\* returned Ok or Err, the stored cur_value is the raw value given to that call.
C18_CurValueIsLastRaw ==
    elt_log # <<>> => elt.cur_value = LastOf(elt_log).value

C18_Witness ==
    /\ Len(elt_log) = 2
    /\ ~elt.is_gauge
    /\ elt_log[1].ok /\ elt_log[1].value = Num(0)
    /\ ~elt_log[2].ok /\ elt_log[2].value = Num(1)
    /\ elt.cur_value = Num(1)

\* the fraction x is below zero
IsNegative(x) == ~IsNaN(x) /\ x[1] < 0

\* C20: when a rate series with a stored previous value receives a smaller raw
\* value with an elapsed of at least one millisecond, update returns the
\* negative rate (raw - previous) / elapsed_ms and appends it unchanged to the
\* history; the stored previous value becomes the new raw value.
C20_NegativeRateStored ==
    [][(/\ EltStep
        /\ ~elt.is_gauge
        /\ ~IsNaN(elt.cur_value)
        /\ IsNegative(FSub(LastOf(elt_log').value, elt.cur_value))
        /\ as_millis(LastOf(elt_log').elapsed) # 0) =>
        LET c == LastOf(elt_log')
            rate == FDiv(FSub(c.value, elt.cur_value), as_millis(c.elapsed))
        IN  /\ c.ok
            /\ c.ret = rate
            /\ IsNegative(rate)
            /\ elt'.values # <<>>
            /\ LastOf(elt'.values) = rate
            /\ elt'.cur_value = c.value]_vars

C20_Witness ==
    /\ ~elt.is_gauge
    /\ elt.nelts = 2
    /\ Len(elt_log) = 3
    /\ elt_log[2].value = Num(1) /\ elt_log[3].value = Num(0)
    /\ elt_log[3].elapsed = 2000
    /\ elt_log[3].ret = <<-1, 2>>
    /\ elt.values = <<Num(1), <<-1, 2>>>>
    /\ elt.cur_value = Num(0)

\* C14 (as claimed): when update_from_json returns an error in the polling
\* loop, the task does not end: the failure is counted, and the task ends only
\* once the count exceeds MAX_NET_ERRORS.
C14_UpdateErrorKeepsLooping ==
    [][(/\ task.pc = "update"
        /\ task'.pc # "update"
        /\ ~update_from_json(stat, task.body.json, task.elapsed).ok) =>
        /\ task'.error_counter = task.error_counter + 1
        /\ task'.pc = "done" => task'.error_counter > MAX_NET_ERRORS]_vars

\* 2^k
RECURSIVE Pow2(_)
Pow2(k) == IF k = 0 THEN 1 ELSE 2 * Pow2(k - 1)

\* C15 (as claimed): the wait before the next attempt is the configured
\* timeout times 2^k after the k-th failure in a row, and the timeout itself
\* after a success.
C15_WaitDoubles ==
    task.pc = "sleep" => task.sleeping = task.timeout * Pow2(task.error_counter)

\* C15 (amended): the wait before the next attempt is always the configured
\* timeout; what doubles with each failure in a row is the elapsed handed to
\* the next update_from_json, timeout * 2^k after the k-th failure, back to the
\* timeout after a success.
C15_ElapsedDoublesWaitFixed ==
    task.pc = "sleep" =>
        /\ task.sleeping = task.timeout
        /\ task.elapsed = task.timeout * Pow2(task.error_counter)

C15_Witness ==
    /\ task.pc = "sleep"
    /\ task.error_counter = 3
    /\ task.streak = 2
    /\ task.timeout = 1000
    /\ task.elapsed = 8000
    /\ task.sleeping = 1000

\* C17: the polling task holds the stats mutex only while it calls
\* update_from_json (and charts, in src/src/main.rs) and while it calls
\* display_plot: not while the client is built and the request is in flight,
\* not while the body is read and decoded, not while it sleeps, and not once
\* it has ended.
C17_MutexHeldOnlyInCriticalSections ==
    /\ task.pc \in {"build", "request", "body", "decode", "settle", "sleep", "done"} =>
           ~task.held
    /\ task.pc \in {"update", "plot"} => task.held

C17_Witness ==
    /\ task.pc = "sleep"
    /\ ~task.held
    /\ task.mode = "plot"
    /\ task.niter = 2
    /\ task.error_counter = 0
    /\ stat.total.values # <<>>

\* C19 (as claimed): the task ends with an error exactly when the failures in
\* a row exceed MAX_NET_ERRORS.
C19_EndsOnlyPastMaxNetErrors ==
    task.pc = "done" <=> task.error_counter > MAX_NET_ERRORS

\* C19 (amended): a body-read failure ends the task exactly when it is the
\* (MAX_NET_ERRORS + 1)-th in a row, earlier ones are counted and slept on; a
\* successful cycle sets the count to 0; the only other ends of the task are a
\* failed build of the HTTP client, a failed send, a malformed body and an
\* update_from_json error or panic, each at once.
C19_TerminationCauses ==
    [][/\ (task.pc = "body" /\ task'.pc \in {"sleep", "done"}) =>
            /\ task'.error_counter = task.error_counter + 1
            /\ task'.pc = "done" <=> task.error_counter = MAX_NET_ERRORS
            /\ task'.pc = "done" => task'.exit = "body"
       /\ (task.pc # "done" /\ task'.pc = "done") =>
            \/ task.pc = "body" /\ task'.exit = "body"
            \/ task.pc = "build" /\ task'.exit = "build"
            \/ task.pc = "request" /\ task'.exit = "send"
            \/ task.pc = "decode" /\ task'.exit = "json"
            \/ task.pc = "update" /\ task'.exit \in {"update", "panic"}
       /\ task'.exit = "body" => task'.error_counter = MAX_NET_ERRORS + 1
       /\ task'.pc # "done" => task'.error_counter <= MAX_NET_ERRORS
       /\ task.pc = "settle" => task'.error_counter = 0]_vars

C19_Witness ==
    /\ task.pc = "sleep"
    /\ task.cycles = 11
    /\ task.streak = MAX_NET_ERRORS
    /\ task.error_counter = MAX_NET_ERRORS

\* update_from_json did not return: the fold's addition panicked
Panicked(call) == call.err = Overflow

\* C16 (as claimed): update_from_json never panics: whatever the snapshot,
\* "add header" and "rewrite subject" counts summing past 2^64 - 1 included,
\* and whatever the elapsed, it returns Ok or Err to its caller.
C16_NeverPanics == ~Panicked(last)

\* C21 (as claimed): after any sequence of update_from_json calls, failed
\* ones included, the spam, ham, junk and total histories have the same length.
C21_RateHistoriesSameLength ==
    /\ Len(stat.spam_stats.values) = Len(stat.ham_stats.values)
    /\ Len(stat.ham_stats.values) = Len(stat.junk_stats.values)
    /\ Len(stat.junk_stats.values) = Len(stat.total.values)

\* C22: in plot mode (and in the older chart program) the display is skipped
\* on the first successful cycle and made on every later one, and at every
\* display each of the spam, ham, junk and total histories holds an entry.
C22_PlotFromSecondSuccess ==
    [][/\ task'.mode \in {"plot", "chart"} =>
            task'.plots = IF task'.niter = 0 THEN 0 ELSE task'.niter - 1
       /\ task'.niter # task.niter => task'.niter = task.niter + 1
       /\ task'.plots # task.plots =>
            /\ task'.plots = task.plots + 1
            /\ task.niter > 0
            /\ \A f \in {"spam_stats", "ham_stats", "junk_stats", "total"} :
                   stat'[f].values # <<>>]_vars

C22_Witness ==
    /\ task.mode = "plot"
    /\ task.pc = "sleep"
    /\ task.niter = 3
    /\ task.plots = 2
    /\ stat.spam_stats.values # <<>>

\* C23: whenever the polling task calls update_from_json, the elapsed it
\* passes is the configured timeout times 2^k, k being the failed cycles in a
\* row just before the call (0 at the start and after a success); and every
\* sleep between cycles lasts exactly the configured timeout.
C23_ElapsedArgumentAndSleep ==
    /\ task.pc = "update" => task.elapsed = Pow2(task.error_counter) * task.timeout
    /\ task.pc \in {"build", "request", "body", "decode", "update", "settle", "plot",
                   "sleep"} =>
           task.sleeping = IF task.cycles = 1 /\ task.pc # "sleep" THEN 0 ELSE task.timeout

C23_Witness ==
    /\ task.pc = "update"
    /\ task.error_counter = 2
    /\ task.streak = 1
    /\ task.timeout = 1000
    /\ task.elapsed = 4000
    /\ task.sleeping = 1000

\* C24: no entry of a series' values is the NaN sentinel, whether the series
\* is a rate or a gauge: a sentinel result goes back to the caller and is not
\* stored.
C24_NoSentinelStored ==
    /\ \A i \in 1..Len(elt.values) : ~IsNaN(elt.values[i])
    /\ \A i \in 1..Len(elt_log) :
           (elt_log[i].ok /\ IsNaN(elt_log[i].ret)) =>
               Len(elt.values) <= Len(elt_log) - 1

C24_Witness ==
    /\ elt.is_gauge
    /\ elt.nelts = 2
    /\ Len(elt_log) = 3
    /\ elt_log[1].ok /\ IsNaN(elt_log[1].ret)
    /\ elt.values = <<elt_log[1].value, elt_log[2].value>>

====
